---- MODULE Spec2Model ----
(***************************************************************************)
(* Link shortener: the server actions createLink / updateLink / deleteLink *)
(* (app/dashboard/actions.ts), the data layer (data/links.ts), the table   *)
(* "links" with its unique slug, the in-memory rate limiter                *)
(* (lib/rate-limit.ts) and the redirect handler GET /l/[shortcode].        *)
(*                                                                         *)
(* A request runs in a slot.  A server action is cut into steps at its     *)
(* awaits on the database: everything between two awaits is synchronous    *)
(* JavaScript and is one atomic action.  auth() reads only the request's   *)
(* own session, so it is taken together with the gates that follow it.     *)
(* Strings that the code inspects (URLs, slugs) are sequences of           *)
(* one-character strings.                                                  *)
(***************************************************************************)
EXTENDS Integers, Sequences, FiniteSets, TLC

\* ------------------------------------------------------------------ bounds
MaxInFlight == 2
MaxEvents == 3

\* ------------------------------------------------------- program constants
CREATE_MAX == 10
UPDATE_MAX == 20
DELETE_MAX == 20
WINDOW_MS == 60000
SLUG_MIN == 3
SLUG_MAX == 50

\* JavaScript's null and undefined, and the userId of a signed-out session
\* (auth() gives userId null there; the actions test !userId).
Null == [type |-> "null"]
Undefined == [type |-> "undefined"]
NoUserId == ""

\* ---------------------------------------------------------------- strings
LowerLetters == <<"a","b","c","d","e","f","g","h","i","j","k","l","m",
                  "n","o","p","q","r","s","t","u","v","w","x","y","z">>
UpperLetters == <<"A","B","C","D","E","F","G","H","I","J","K","L","M",
                  "N","O","P","Q","R","S","T","U","V","W","X","Y","Z">>
Digits == {"0","1","2","3","4","5","6","7","8","9"}

Range(s) == {s[i] : i \in DOMAIN s}
IsAlpha(c) == c \in Range(LowerLetters) \cup Range(UpperLetters)
IsAlnum(c) == IsAlpha(c) \/ c \in Digits

ToLower(c) ==
  IF c \in Range(UpperLetters)
  THEN LowerLetters[CHOOSE i \in DOMAIN UpperLetters : UpperLetters[i] = c]
  ELSE c

LowerCase(s) == [i \in DOMAIN s |-> ToLower(s[i])]

\* Index of the first occurrence of a character of cs in s, 0 when there is none.
IndexOfAny(s, cs) ==
  IF \E i \in DOMAIN s : s[i] \in cs
  THEN CHOOSE i \in DOMAIN s : s[i] \in cs /\ \A j \in 1..(i - 1) : s[j] \notin cs
  ELSE 0

\* ------------------------------------------------------------ new URL(...)
\* The part of the WHATWG parser the handlers depend on: whether the string
\* parses without a base, and the protocol of the result.
SpecialSchemes == { <<"h","t","t","p">>, <<"h","t","t","p","s">>,
                    <<"f","t","p">>, <<"w","s">>, <<"w","s","s">> }
ForbiddenHostChars == {" ", "<", ">", "^", "|", "%", "[", "]"}

SchemeChars(s) ==
  /\ Len(s) >= 1
  /\ IsAlpha(s[1])
  /\ \A i \in DOMAIN s : IsAlnum(s[i]) \/ s[i] \in {"+", "-", "."}

SkipSlashes(s) ==
  IF \E i \in DOMAIN s : s[i] \notin {"/", "\\"}
  THEN SubSeq(s, CHOOSE i \in DOMAIN s :
                   s[i] \notin {"/", "\\"} /\ \A j \in 1..(i - 1) : s[j] \in {"/", "\\"},
              Len(s))
  ELSE << >>

HostOf(rest) ==
  LET e == IndexOfAny(rest, {"/", "\\", "?", "#"})
  IN  IF e = 0 THEN rest ELSE SubSeq(rest, 1, e - 1)

URLFailure == [ok |-> FALSE, protocol |-> << >>]

NewURL(input) ==
  LET c == IndexOfAny(input, {":"})
      scheme == LowerCase(SubSeq(input, 1, c - 1))
      host == HostOf(SkipSlashes(SubSeq(input, c + 1, Len(input))))
  IN  IF c = 0 \/ ~SchemeChars(SubSeq(input, 1, c - 1))
      THEN URLFailure
      ELSE IF scheme \in SpecialSchemes
              /\ (host = << >> \/ \E i \in DOMAIN host : host[i] \in ForbiddenHostChars)
      THEN URLFailure
      ELSE [ok |-> TRUE, protocol |-> scheme \o <<":">>]

AllowedProtocols == { <<"h","t","t","p",":">>, <<"h","t","t","p","s",":">> }

\* --------------------------------------------------------------- messages
MsgLoginCreate == "You must be logged in to create links"
MsgLoginUpdate == "You must be logged in to update links"
MsgLoginDelete == "You must be logged in to delete links"
MsgRateLimited == "Too many requests. Please wait a moment and try again."
MsgValidUrl == "Please enter a valid URL"
MsgSlugMin == "Slug must be at least 3 characters"
MsgSlugMax == "Slug must be less than 50 characters"
MsgSlugChars == "Slug can only contain letters, numbers, hyphens, and underscores"
MsgOnlyHttp == "Only HTTP and HTTPS URLs are allowed"
MsgUrlFormat == "Invalid URL format"
MsgSlugTaken == "This slug is already taken"
MsgNotFound == "Link not found"
MsgForbiddenUpdate == "You don't have permission to update this link"
MsgForbiddenDelete == "You don't have permission to delete this link"
MsgCreateFailed == "Failed to create link. Please try again."
MsgUpdateFailed == "Failed to update link. Please try again."
MsgDeleteFailed == "Failed to delete link. Please try again."
MsgProtocol == "Invalid URL protocol"
MsgInternal == "Internal server error"

Success(d) == [success |-> TRUE, data |-> d]
Failure(e) == [success |-> FALSE, error |-> e]

\* ------------------------------------------------------------ zod schemas
\* Mutant: the character class also lets '.' through.
SlugRegex_dotted(slug) ==
  /\ Len(slug) >= 1
  /\ \A i \in DOMAIN slug : IsAlnum(slug[i]) \/ slug[i] \in {"-", "_", "."}

SlugRegex(slug) ==
  /\ Len(slug) >= 1
  /\ \A i \in DOMAIN slug : IsAlnum(slug[i]) \/ slug[i] \in {"-", "_"}

\* Mutant: the schema declares slug before url.
SchemaIssues_slugFirst(data) ==
     (IF Len(data.slug) >= SLUG_MIN THEN << >> ELSE <<MsgSlugMin>>)
  \o (IF Len(data.slug) <= SLUG_MAX THEN << >> ELSE <<MsgSlugMax>>)
  \o (IF SlugRegex(data.slug) THEN << >> ELSE <<MsgSlugChars>>)
  \o (IF NewURL(data.url).ok THEN << >> ELSE <<MsgValidUrl>>)

\* The issues of safeParse in the order zod reports them: the keys of the
\* object in declaration order, the checks of a string in declaration order.
SchemaIssues(data) ==
     (IF NewURL(data.url).ok THEN << >> ELSE <<MsgValidUrl>>)
  \o (IF Len(data.slug) >= SLUG_MIN THEN << >> ELSE <<MsgSlugMin>>)
  \o (IF Len(data.slug) <= SLUG_MAX THEN << >> ELSE <<MsgSlugMax>>)
  \o (IF SlugRegex(data.slug) THEN << >> ELSE <<MsgSlugChars>>)

\* Mutant: step 2b, the protocol allow-list, is missing.
ValidateInput_schemaOnly(data) ==
  IF SchemaIssues(data) # << >> THEN <<Failure(SchemaIssues(data)[1])>> ELSE << >>

\* Steps 2 and 2b of createLink and updateLink: << >> when the input passes,
\* else the failure returned.
ValidateInput(data) ==
  LET issues == SchemaIssues(data)
      url == NewURL(data.url)
  IN  IF issues # << >> THEN <<Failure(issues[1])>>
      ELSE IF ~url.ok THEN <<Failure(MsgUrlFormat)>>
      ELSE IF url.protocol \notin AllowedProtocols THEN <<Failure(MsgOnlyHttp)>>
      ELSE << >>

\* ----------------------------------------------------------- rate limiter
Identifier(prefix, userId) == <<prefix, userId>>

\* The Map `store`: a function whose domain is the set of identifiers it holds.
MapSet(st, k, v) == [x \in DOMAIN st \cup {k} |-> IF x = k THEN v ELSE st[x]]

\* store.get(k): the record in a one-element sequence, << >> when there is none.
MapGet(st, k) == IF k \in DOMAIN st THEN <<st[k]>> ELSE << >>

\* Mutant: the sweep also drops a record whose window ends now.
cleanupExpiredEntries_eager(st, now) ==
  [k \in {x \in DOMAIN st : ~(now >= st[x].resetTime)} |-> st[k]]

cleanupExpiredEntries(st, now) ==
  [k \in {x \in DOMAIN st : ~(now > st[x].resetTime)} |-> st[k]]

\* Mutant: a window that has passed does not lift a full count.
checkRateLimit_limitFirst(st, identifier, max, windowMs, now, sweep) ==
  LET userLimit == MapGet(st, identifier)
      swept == IF sweep THEN cleanupExpiredEntries(st, now) ELSE st
  IN  IF userLimit # << >> /\ userLimit[1].count >= max
      THEN [allowed |-> FALSE, store |-> st]
      ELSE IF userLimit = << >> \/ now > userLimit[1].resetTime
      THEN [allowed |-> TRUE,
            store |-> MapSet(swept, identifier, [count |-> 1, resetTime |-> now + windowMs])]
      ELSE [allowed |-> TRUE,
            store |-> [swept EXCEPT ![identifier].count = userLimit[1].count + 1]]

\* Mutant: the limit is tested with > instead of >=.
checkRateLimit_offByOne(st, identifier, max, windowMs, now, sweep) ==
  LET userLimit == MapGet(st, identifier)
      swept == IF sweep THEN cleanupExpiredEntries(st, now) ELSE st
  IN  IF userLimit = << >> \/ now > userLimit[1].resetTime
      THEN [allowed |-> TRUE,
            store |-> MapSet(swept, identifier, [count |-> 1, resetTime |-> now + windowMs])]
      ELSE IF userLimit[1].count > max
      THEN [allowed |-> FALSE, store |-> swept]
      ELSE [allowed |-> TRUE,
            store |-> [swept EXCEPT ![identifier].count = userLimit[1].count + 1]]

\* Mutant: a refused call is counted too.
checkRateLimit_countsDenied(st, identifier, max, windowMs, now, sweep) ==
  LET userLimit == MapGet(st, identifier)
      swept == IF sweep THEN cleanupExpiredEntries(st, now) ELSE st
  IN  IF userLimit = << >> \/ now > userLimit[1].resetTime
      THEN [allowed |-> TRUE,
            store |-> MapSet(swept, identifier, [count |-> 1, resetTime |-> now + windowMs])]
      ELSE [allowed |-> userLimit[1].count < max,
            store |-> [swept EXCEPT ![identifier].count = userLimit[1].count + 1]]

\* Mutant: a call at now = resetTime starts a new window.
checkRateLimit_resetAtBoundary(st, identifier, max, windowMs, now, sweep) ==
  LET userLimit == MapGet(st, identifier)
      swept == IF sweep THEN cleanupExpiredEntries(st, now) ELSE st
  IN  IF userLimit = << >> \/ now >= userLimit[1].resetTime
      THEN [allowed |-> TRUE,
            store |-> MapSet(swept, identifier, [count |-> 1, resetTime |-> now + windowMs])]
      ELSE IF userLimit[1].count >= max
      THEN [allowed |-> FALSE, store |-> swept]
      ELSE [allowed |-> TRUE,
            store |-> [swept EXCEPT ![identifier].count = userLimit[1].count + 1]]

\* checkRateLimit: the answer and the store it leaves.  sweep is the outcome
\* of Math.random() < 0.01.
checkRateLimit(st, identifier, max, windowMs, now, sweep) ==
  LET userLimit == MapGet(st, identifier)
      swept == IF sweep THEN cleanupExpiredEntries(st, now) ELSE st
  IN  IF userLimit = << >> \/ now > userLimit[1].resetTime
      THEN [allowed |-> TRUE,
            store |-> MapSet(swept, identifier, [count |-> 1, resetTime |-> now + windowMs])]
      ELSE IF userLimit[1].count >= max
      THEN [allowed |-> FALSE, store |-> swept]
      ELSE [allowed |-> TRUE,
            store |-> [swept EXCEPT ![identifier].count = userLimit[1].count + 1]]

\* Mutant: the window is taken to have passed at now = resetTime.
getRemainingRequests_atBoundary(st, identifier, max, now) ==
  LET userLimit == MapGet(st, identifier)
  IN  IF userLimit = << >> \/ now >= userLimit[1].resetTime THEN max
      ELSE IF max - userLimit[1].count > 0 THEN max - userLimit[1].count ELSE 0

\* getRemainingRequests: Math.max(0, max - count) inside a window, else max.
getRemainingRequests(st, identifier, max, now) ==
  LET userLimit == MapGet(st, identifier)
  IN  IF userLimit = << >> \/ now > userLimit[1].resetTime THEN max
      ELSE IF max - userLimit[1].count > 0 THEN max - userLimit[1].count ELSE 0

\* Mutant: store.clear().
resetRateLimit_clear(st, identifier) == << >>

\* resetRateLimit: store.delete(identifier).
resetRateLimit(st, identifier) == [k \in DOMAIN st \ {identifier} |-> st[k]]

\* -------------------------------------------------------------- data layer
\* Mutant: the unique index on slug is missing.
links_slug_unique_dropped(tbl, slug, id) == TRUE

\* CONSTRAINT "links_slug_unique": a row with this slug may be written as row id.
links_slug_unique(tbl, slug, id) == \A l \in tbl : l.slug = slug => l.id = id

\* Mutant: the SELECT has no WHERE clause.
getUserLinks_everyone(tbl, userId) ==
  LET n == Cardinality(tbl)
  IN  {s \in [1..n -> tbl] :
         \A i, j \in 1..n : i < j => s[i] # s[j] /\ s[i].createdAt >= s[j].createdAt}

\* SELECT * FROM links WHERE user_id = userId ORDER BY created_at DESC: the
\* arrays the query may give.  Rows with the same created_at come in any
\* order.
getUserLinks(tbl, userId) ==
  LET rows == {l \in tbl : l.userId = userId}
      n == Cardinality(rows)
  IN  {s \in [1..n -> rows] :
         \A i, j \in 1..n : i < j => s[i] # s[j] /\ s[i].createdAt >= s[j].createdAt}

\* Mutant: the lookup by slug never finds a row.
getLinkBySlug_miss(tbl, slug) == << >>

\* The queries give the array `result` (limit 1): << >> or one row; the
\* callers test result[0] ?? null.
getLinkBySlug(tbl, slug) ==
  IF \E l \in tbl : l.slug = slug THEN <<CHOOSE l \in tbl : l.slug = slug>> ELSE << >>

getLinkById(tbl, linkId) ==
  IF \E l \in tbl : l.id = linkId THEN <<CHOOSE l \in tbl : l.id = linkId>> ELSE << >>

NewRow(id, data, now) ==
  [id |-> id, userId |-> data.userId, slug |-> data.slug,
   originalUrl |-> data.originalUrl, createdAt |-> now, updatedAt |-> now]

\* Mutant: the UPDATE leaves updated_at as it was.
UpdatedRow_staleStamp(l, data, now) ==
  [l EXCEPT !.slug = data.slug, !.originalUrl = data.originalUrl]

\* Mutant: the UPDATE writes the URL and the time, not the slug.
UpdatedRow_urlOnly(l, data, now) ==
  [l EXCEPT !.originalUrl = data.originalUrl, !.updatedAt = now]

UpdatedRow(l, data, now) ==
  [l EXCEPT !.slug = data.slug, !.originalUrl = data.originalUrl, !.updatedAt = now]

\* ------------------------------------------------------------------ inputs
Users == {"user_A", "user_B"}
UserIds == Users \cup {NoUserId}

UrlHttps == <<"h","t","t","p","s",":","/","/","e",".","c","o">>
UrlHttp == <<"h","t","t","p",":","/","/","x",".","c","o">>
UrlJavascript == <<"j","a","v","a","s","c","r","i","p","t",":","a","(","1",")">>
UrlGarbage == <<"n","o"," ","u","r","l">>
Urls == {UrlHttps, UrlHttp, UrlJavascript, UrlGarbage}

SlugAbc == <<"a","b","c">>
SlugXyz == <<"x","-","Z">>
SlugShort == <<"a",".">>
Slugs == {SlugAbc, SlugXyz, SlugShort}

LinkIds == 1..(MaxEvents - 1)
Slots == 1..MaxInFlight
Prefixes_seq == <<"create-link", "update-link", "delete-link">>

\* ------------------------------------------------------------------- state
VARIABLES
  links,          \* the rows of table "links"
  links_id_seq,   \* the next value of the identity sequence
  store,          \* the rate limiter's Map
  now,            \* the clock (Date.now(), now())
  pc,             \* per slot: the await the request in it stands at
  req,            \* per slot: the request in flight (who calls what with which input)
  response,       \* what the step just taken handed to its caller, if anything
  revalidated,    \* whether the step just taken called revalidatePath("/dashboard")
  calls,          \* requests issued so far
  trace           \* the calls made on a library function directly, with their results

vars == <<links, links_id_seq, store, now, pc, req, response, revalidated, calls, trace>>

NoRequest == [op |-> "none"]
NoResponse == [slot |-> 0]

\* The request of slot r (operation op of the session of userId) returned
\* value; for a route handler, answered value.
Returned(r, op, userId, value) ==
  [slot |-> r, op |-> op, userId |-> userId, threw |-> FALSE, value |-> value]
\* An exception left the server action: its caller gets no value.
Threw(r, op, userId) == [slot |-> r, op |-> op, userId |-> userId, threw |-> TRUE]

Init ==
  /\ links = {}
  /\ links_id_seq = 1
  /\ store = << >>
  /\ now = 0
  /\ pc = [r \in Slots |-> "idle"]
  /\ req = [r \in Slots |-> NoRequest]
  /\ response = NoResponse
  /\ revalidated = FALSE
  /\ calls = 0
  /\ trace = << >>

\* The clock moves in steps of TickSteps; the environment's events (requests
\* issued, ticks of the clock) are bounded together.
TickSteps == {WINDOW_MS, WINDOW_MS + 1}
TicksOf(t) == t \div WINDOW_MS
EventsLeft == calls + TicksOf(now) < MaxEvents

\* A request enters the lowest free slot and runs to its first await on the
\* database, or to its return when a gate fails: early is << >> or the
\* failure returned.
Begin(r, request, early, next) ==
  /\ pc[r] = "idle"
  /\ \A q \in Slots : q < r => pc[q] # "idle"
  /\ EventsLeft
  /\ calls' = calls + 1
  /\ revalidated' = FALSE
  /\ UNCHANGED trace
  /\ IF early # << >>
     THEN /\ response' = Returned(r, request.op, request.userId, early[1])
          /\ UNCHANGED <<pc, req>>
     ELSE /\ response' = NoResponse
          /\ pc' = [pc EXCEPT ![r] = next]
          /\ req' = [req EXCEPT ![r] = request]

\* The request in slot r goes on to its next await.
Goto(r, next) ==
  /\ pc' = [pc EXCEPT ![r] = next]
  /\ response' = NoResponse
  /\ revalidated' = FALSE
  /\ UNCHANGED <<req, trace>>

\* The request in slot r ends: it returns a value, or throws.
End(r, resp, signalled) ==
  /\ pc' = [pc EXCEPT ![r] = "idle"]
  /\ req' = [req EXCEPT ![r] = NoRequest]
  /\ response' = resp
  /\ revalidated' = signalled
  /\ UNCHANGED trace

At(r, op, where) == pc[r] = where /\ req[r].op = op

\* -------------------------------------------------------------- createLink
\* Mutant: createLink validates its input before it asks the rate limiter.
createLinkGates_validateFirst(st, userId, data, t, sweep) ==
  LET rl == checkRateLimit(st, Identifier("create-link", userId), CREATE_MAX, WINDOW_MS, t, sweep)
  IN  IF userId = NoUserId THEN [store |-> st, early |-> <<Failure(MsgLoginCreate)>>]
      ELSE IF ValidateInput(data) # << >> THEN [store |-> st, early |-> ValidateInput(data)]
      ELSE IF ~rl.allowed THEN [store |-> rl.store, early |-> <<Failure(MsgRateLimited)>>]
      ELSE [store |-> rl.store, early |-> << >>]

\* Steps 1, 1b, 2, 2b: the store the rate limiter leaves and the failure
\* returned, << >> when every gate passes.
createLinkGates(st, userId, data, t, sweep) ==
  LET rl == checkRateLimit(st, Identifier("create-link", userId), CREATE_MAX, WINDOW_MS, t, sweep)
  IN  IF userId = NoUserId THEN [store |-> st, early |-> <<Failure(MsgLoginCreate)>>]
      ELSE IF ~rl.allowed THEN [store |-> rl.store, early |-> <<Failure(MsgRateLimited)>>]
      ELSE [store |-> rl.store, early |-> ValidateInput(data)]

createLink_gates(r, userId, data, sweep) ==
  LET g == createLinkGates(store, userId, data, now, sweep)
  IN  /\ Begin(r, [op |-> "createLink", userId |-> userId, data |-> data], g.early, "precheck")
      /\ store' = g.store
      /\ UNCHANGED <<links, links_id_seq, now>>

\* Step 3: await getLinkBySlug, outside any try.  dbFails: the query throws
\* (the database cannot be reached).
createLink_precheck(r, dbFails) ==
  /\ At(r, "createLink", "precheck")
  /\ IF dbFails THEN End(r, Threw(r, "createLink", req[r].userId), FALSE)
     ELSE IF getLinkBySlug(links, req[r].data.slug) # << >>
     THEN End(r, Returned(r, "createLink", req[r].userId, Failure(MsgSlugTaken)), FALSE)
     ELSE Goto(r, "persist")
  /\ UNCHANGED <<links, links_id_seq, store, now, calls>>

\* Mutant: the insert replaces a row that holds the slug (an upsert).
createLinkInDb_upsert(tbl, seq, data, t) ==
  [ok |-> TRUE, links |-> {l \in tbl : l.slug # data.slug} \cup {NewRow(seq, data, t)},
   seq |-> seq + 1, row |-> NewRow(seq, data, t)]

\* Mutant: the id of a new row is one more than the largest id in the table.
createLinkInDb_maxPlusOne(tbl, seq, data, t) ==
  LET id == IF tbl = {} THEN 1 ELSE 1 + CHOOSE m \in {l.id : l \in tbl} : \A l \in tbl : l.id <= m
  IN  IF links_slug_unique(tbl, data.slug, id)
      THEN [ok |-> TRUE, links |-> tbl \cup {NewRow(id, data, t)}, seq |-> seq + 1,
            row |-> NewRow(id, data, t)]
      ELSE [ok |-> FALSE, links |-> tbl, seq |-> seq + 1, row |-> Undefined]

\* INSERT ... RETURNING: the sequence value is drawn before the unique index
\* is checked, so a rejected insert still consumes an id.
createLinkInDb(tbl, seq, data, t) ==
  IF links_slug_unique(tbl, data.slug, seq)
  THEN [ok |-> TRUE, links |-> tbl \cup {NewRow(seq, data, t)}, seq |-> seq + 1,
        row |-> NewRow(seq, data, t)]
  ELSE [ok |-> FALSE, links |-> tbl, seq |-> seq + 1, row |-> Undefined]

\* Mutant: createLink does not call revalidatePath.
createLink_persist_silent(r, dbFails) ==
  /\ At(r, "createLink", "persist")
  /\ LET ins == createLinkInDb(links, links_id_seq,
                  [userId |-> req[r].userId, slug |-> req[r].data.slug,
                   originalUrl |-> req[r].data.url], now)
     IN  IF dbFails
         THEN /\ UNCHANGED <<links, links_id_seq>>
              /\ End(r, Returned(r, "createLink", req[r].userId, Failure(MsgCreateFailed)), FALSE)
         ELSE /\ links' = ins.links
              /\ links_id_seq' = ins.seq
              /\ IF ins.ok
                 THEN End(r, Returned(r, "createLink", req[r].userId, Success(ins.row)), FALSE)
                 ELSE End(r, Returned(r, "createLink", req[r].userId, Failure(MsgCreateFailed)), FALSE)
  /\ UNCHANGED <<store, now, calls>>

\* Steps 4, 5: try { createLinkInDb; revalidatePath } catch { generic failure }.
createLink_persist(r, dbFails) ==
  /\ At(r, "createLink", "persist")
  /\ LET ins == createLinkInDb(links, links_id_seq,
                  [userId |-> req[r].userId, slug |-> req[r].data.slug,
                   originalUrl |-> req[r].data.url], now)
     IN  IF dbFails
         THEN /\ UNCHANGED <<links, links_id_seq>>
              /\ End(r, Returned(r, "createLink", req[r].userId, Failure(MsgCreateFailed)), FALSE)
         ELSE /\ links' = ins.links
              /\ links_id_seq' = ins.seq
              /\ IF ins.ok
                 THEN End(r, Returned(r, "createLink", req[r].userId, Success(ins.row)), TRUE)
                 ELSE End(r, Returned(r, "createLink", req[r].userId, Failure(MsgCreateFailed)), FALSE)
  /\ UNCHANGED <<store, now, calls>>

\* -------------------------------------------------------------- updateLink
\* Mutant: updateLink draws on createLink's counter and limit.
updateLinkGates_createKey(st, userId, data, t, sweep) ==
  LET rl == checkRateLimit(st, Identifier("create-link", userId), CREATE_MAX, WINDOW_MS, t, sweep)
  IN  IF userId = NoUserId THEN [store |-> st, early |-> <<Failure(MsgLoginUpdate)>>]
      ELSE IF ~rl.allowed THEN [store |-> rl.store, early |-> <<Failure(MsgRateLimited)>>]
      ELSE [store |-> rl.store, early |-> ValidateInput(data)]

\* Mutant: updateLink validates its input before it asks the rate limiter.
updateLinkGates_validateFirst(st, userId, data, t, sweep) ==
  LET rl == checkRateLimit(st, Identifier("update-link", userId), UPDATE_MAX, WINDOW_MS, t, sweep)
  IN  IF userId = NoUserId THEN [store |-> st, early |-> <<Failure(MsgLoginUpdate)>>]
      ELSE IF ValidateInput(data) # << >> THEN [store |-> st, early |-> ValidateInput(data)]
      ELSE IF ~rl.allowed THEN [store |-> rl.store, early |-> <<Failure(MsgRateLimited)>>]
      ELSE [store |-> rl.store, early |-> << >>]

updateLinkGates(st, userId, data, t, sweep) ==
  LET rl == checkRateLimit(st, Identifier("update-link", userId), UPDATE_MAX, WINDOW_MS, t, sweep)
  IN  IF userId = NoUserId THEN [store |-> st, early |-> <<Failure(MsgLoginUpdate)>>]
      ELSE IF ~rl.allowed THEN [store |-> rl.store, early |-> <<Failure(MsgRateLimited)>>]
      ELSE [store |-> rl.store, early |-> ValidateInput(data)]

updateLink_gates(r, userId, data, sweep) ==
  LET g == updateLinkGates(store, userId, data, now, sweep)
  IN  /\ Begin(r, [op |-> "updateLink", userId |-> userId, data |-> data], g.early, "ownership")
      /\ store' = g.store
      /\ UNCHANGED <<links, links_id_seq, now>>

\* Mutant: the owner of the link is not compared with the caller.
VerifyOwnership_existsOnly(existingLink, userId, forbidden) ==
  IF existingLink = << >> THEN <<Failure(MsgNotFound)>> ELSE << >>

\* Step 3 for the array getLinkById gave: the failure returned, << >> when
\* the caller owns the link.
VerifyOwnership(existingLink, userId, forbidden) ==
  IF existingLink = << >> THEN <<Failure(MsgNotFound)>>
  ELSE IF existingLink[1].userId # userId THEN <<Failure(forbidden)>>
  ELSE << >>

\* Mutant: the slug is looked up whether it changes or not.
updateLink_ownership_alwaysLookup(r, dbFails) ==
  /\ At(r, "updateLink", "ownership")
  /\ LET existingLink == getLinkById(links, req[r].data.id)
         denied == VerifyOwnership(existingLink, req[r].userId, MsgForbiddenUpdate)
     IN  IF dbFails THEN End(r, Threw(r, "updateLink", req[r].userId), FALSE)
         ELSE IF denied # << >> THEN End(r, Returned(r, "updateLink", req[r].userId, denied[1]), FALSE)
         ELSE Goto(r, "slugcheck")
  /\ UNCHANGED <<links, links_id_seq, store, now, calls>>

\* Step 3: await getLinkById, outside any try; then the test of step 4.
updateLink_ownership(r, dbFails) ==
  /\ At(r, "updateLink", "ownership")
  /\ LET existingLink == getLinkById(links, req[r].data.id)
         denied == VerifyOwnership(existingLink, req[r].userId, MsgForbiddenUpdate)
     IN  IF dbFails THEN End(r, Threw(r, "updateLink", req[r].userId), FALSE)
         ELSE IF denied # << >> THEN End(r, Returned(r, "updateLink", req[r].userId, denied[1]), FALSE)
         ELSE IF existingLink[1].slug # req[r].data.slug THEN Goto(r, "slugcheck")
         ELSE Goto(r, "persist")
  /\ UNCHANGED <<links, links_id_seq, store, now, calls>>

\* Step 4: await getLinkBySlug, outside any try.
updateLink_slugcheck(r, dbFails) ==
  /\ At(r, "updateLink", "slugcheck")
  /\ LET slugTaken == getLinkBySlug(links, req[r].data.slug)
     IN  IF dbFails THEN End(r, Threw(r, "updateLink", req[r].userId), FALSE)
         ELSE IF slugTaken # << >> /\ slugTaken[1].id # req[r].data.id
         THEN End(r, Returned(r, "updateLink", req[r].userId, Failure(MsgSlugTaken)), FALSE)
         ELSE Goto(r, "persist")
  /\ UNCHANGED <<links, links_id_seq, store, now, calls>>

\* UPDATE ... WHERE id = linkId RETURNING: result[0], undefined when no row
\* has the id; the unique index rejects a slug another row holds.
updateLinkInDb(tbl, linkId, data, t) ==
  LET hit == getLinkById(tbl, linkId)
  IN  IF hit = << >> THEN [ok |-> TRUE, links |-> tbl, row |-> Undefined]
      ELSE IF ~links_slug_unique(tbl, data.slug, linkId)
      THEN [ok |-> FALSE, links |-> tbl, row |-> Undefined]
      ELSE [ok |-> TRUE,
            links |-> (tbl \ {hit[1]}) \cup {UpdatedRow(hit[1], data, t)},
            row |-> UpdatedRow(hit[1], data, t)]

\* Steps 5, 6: try { updateLinkInDb; revalidatePath } catch { generic failure }.
updateLink_persist(r, dbFails) ==
  /\ At(r, "updateLink", "persist")
  /\ LET upd == updateLinkInDb(links, req[r].data.id,
                  [slug |-> req[r].data.slug, originalUrl |-> req[r].data.url], now)
     IN  IF dbFails \/ ~upd.ok
         THEN /\ UNCHANGED links
              /\ End(r, Returned(r, "updateLink", req[r].userId, Failure(MsgUpdateFailed)), FALSE)
         ELSE /\ links' = upd.links
              /\ End(r, Returned(r, "updateLink", req[r].userId, Success(upd.row)), TRUE)
  /\ UNCHANGED <<links_id_seq, store, now, calls>>

\* -------------------------------------------------------------- deleteLink
\* Mutant: deleteLink asks the rate limiter before it looks at the session.
deleteLinkGates_rateFirst(st, userId, t, sweep) ==
  LET rl == checkRateLimit(st, Identifier("delete-link", userId), DELETE_MAX, WINDOW_MS, t, sweep)
  IN  IF ~rl.allowed THEN [store |-> rl.store, early |-> <<Failure(MsgRateLimited)>>]
      ELSE IF userId = NoUserId THEN [store |-> rl.store, early |-> <<Failure(MsgLoginDelete)>>]
      ELSE [store |-> rl.store, early |-> << >>]

deleteLinkGates(st, userId, t, sweep) ==
  LET rl == checkRateLimit(st, Identifier("delete-link", userId), DELETE_MAX, WINDOW_MS, t, sweep)
  IN  IF userId = NoUserId THEN [store |-> st, early |-> <<Failure(MsgLoginDelete)>>]
      ELSE IF ~rl.allowed THEN [store |-> rl.store, early |-> <<Failure(MsgRateLimited)>>]
      ELSE [store |-> rl.store, early |-> << >>]

deleteLink_gates(r, userId, linkId, sweep) ==
  LET g == deleteLinkGates(store, userId, now, sweep)
  IN  /\ Begin(r, [op |-> "deleteLink", userId |-> userId, linkId |-> linkId], g.early, "ownership")
      /\ store' = g.store
      /\ UNCHANGED <<links, links_id_seq, now>>

\* Mutant: deleteLink goes on whenever the link exists, whoever owns it.
deleteLink_ownership_unchecked(r, dbFails) ==
  /\ At(r, "deleteLink", "ownership")
  /\ IF dbFails THEN End(r, Threw(r, "deleteLink", req[r].userId), FALSE)
     ELSE IF getLinkById(links, req[r].linkId) = << >>
     THEN End(r, Returned(r, "deleteLink", req[r].userId, Failure(MsgNotFound)), FALSE)
     ELSE Goto(r, "persist")
  /\ UNCHANGED <<links, links_id_seq, store, now, calls>>

\* Step 2: await getLinkById, outside any try.
deleteLink_ownership(r, dbFails) ==
  /\ At(r, "deleteLink", "ownership")
  /\ LET denied == VerifyOwnership(getLinkById(links, req[r].linkId), req[r].userId,
                                   MsgForbiddenDelete)
     IN  IF dbFails THEN End(r, Threw(r, "deleteLink", req[r].userId), FALSE)
         ELSE IF denied # << >> THEN End(r, Returned(r, "deleteLink", req[r].userId, denied[1]), FALSE)
         ELSE Goto(r, "persist")
  /\ UNCHANGED <<links, links_id_seq, store, now, calls>>

\* DELETE ... WHERE id = linkId.
deleteLinkInDb(tbl, linkId) == {l \in tbl : l.id # linkId}

\* Mutant: deleteLink calls revalidatePath whether the DELETE went through
\* or not.
deleteLink_persist_signalling(r, dbFails) ==
  /\ At(r, "deleteLink", "persist")
  /\ IF dbFails
     THEN /\ UNCHANGED links
          /\ End(r, Returned(r, "deleteLink", req[r].userId, Failure(MsgDeleteFailed)), TRUE)
     ELSE /\ links' = deleteLinkInDb(links, req[r].linkId)
          /\ End(r, Returned(r, "deleteLink", req[r].userId, Success(Null)), TRUE)
  /\ UNCHANGED <<links_id_seq, store, now, calls>>

\* Steps 3, 4: try { deleteLinkInDb; revalidatePath } catch { generic failure }.
deleteLink_persist(r, dbFails) ==
  /\ At(r, "deleteLink", "persist")
  /\ IF dbFails
     THEN /\ UNCHANGED links
          /\ End(r, Returned(r, "deleteLink", req[r].userId, Failure(MsgDeleteFailed)), FALSE)
     ELSE /\ links' = deleteLinkInDb(links, req[r].linkId)
          /\ End(r, Returned(r, "deleteLink", req[r].userId, Success(Null)), TRUE)
  /\ UNCHANGED <<links_id_seq, store, now, calls>>

\* ------------------------------------------------------- GET /l/[shortcode]
\* NextResponse.json(body, {status}) and NextResponse.redirect(url, status):
\* the answer records what the handler passes.
Json(body, status) == [status |-> status, error |-> body]
Redirect(url, status) == [status |-> status, location |-> url]

\* Mutant: the stored URL is redirected to as it is.
GETResponse_trusting(found) ==
  IF found = << >> THEN Json(MsgNotFound, 404) ELSE Redirect(found[1].originalUrl, 307)

\* Mutant: the redirect goes to a fixed page, not to the stored URL.
GETResponse_fixed(found) ==
  IF found = << >> THEN Json(MsgNotFound, 404) ELSE Redirect(UrlHttps, 307)

\* Mutant: a stored URL that may not be redirected to is answered as if no
\* link had the slug.
GETResponse_conflating(found) ==
  IF found = << >> THEN Json(MsgNotFound, 404)
  ELSE LET url == NewURL(found[1].originalUrl)
       IN  IF ~url.ok \/ url.protocol \notin AllowedProtocols THEN Json(MsgNotFound, 404)
           ELSE Redirect(found[1].originalUrl, 307)

\* The response for the array the lookup gave.
GETResponse(found) ==
  IF found = << >> THEN Json(MsgNotFound, 404)
  ELSE LET url == NewURL(found[1].originalUrl)
       IN  IF ~url.ok THEN Json(MsgUrlFormat, 400)
           ELSE IF url.protocol \notin AllowedProtocols THEN Json(MsgProtocol, 400)
           ELSE Redirect(found[1].originalUrl, 307)

\* Mutant: a lookup that throws is taken for a lookup that found nothing.
GET_swallow(r, shortcode, dbFails) ==
  /\ Begin(r, [op |-> "GET", userId |-> NoUserId, shortcode |-> shortcode],
           <<IF dbFails THEN Json(MsgNotFound, 404)
             ELSE GETResponse(getLinkBySlug(links, shortcode))>>, "idle")
  /\ UNCHANGED <<links, links_id_seq, store, now>>

\* Mutant: the handler counts its calls in the rate limiter's Map.
GET_counting(r, shortcode, dbFails) ==
  LET rl == checkRateLimit(store, Identifier("resolve", NoUserId), UPDATE_MAX, WINDOW_MS, now, FALSE)
  IN  /\ Begin(r, [op |-> "GET", userId |-> NoUserId, shortcode |-> shortcode],
               <<IF ~rl.allowed THEN Json(MsgRateLimited, 429)
                 ELSE IF dbFails THEN Json(MsgInternal, 500)
                 ELSE GETResponse(getLinkBySlug(links, shortcode))>>, "idle")
      /\ store' = rl.store
      /\ UNCHANGED <<links, links_id_seq, now>>

\* The whole handler: one await on the database, everything inside one try.
GET(r, shortcode, dbFails) ==
  /\ Begin(r, [op |-> "GET", userId |-> NoUserId, shortcode |-> shortcode],
           <<IF dbFails THEN Json(MsgInternal, 500)
             ELSE GETResponse(getLinkBySlug(links, shortcode))>>, "idle")
  /\ UNCHANGED <<links, links_id_seq, store, now>>

\* ------------------------------------------------------------- environment
Tick(d) ==
  /\ EventsLeft
  /\ now' = now + d
  /\ response' = NoResponse
  /\ revalidated' = FALSE
  /\ UNCHANGED <<links, links_id_seq, store, pc, req, calls, trace>>

\* The outcomes of Math.random() < 0.01 that differ: the sweep changes the
\* Map only when it holds an expired entry.
Sweeps == IF cleanupExpiredEntries(store, now) # store THEN BOOLEAN ELSE {FALSE}

Inputs == [url : Urls, slug : Slugs]
UpdateInputs == [id : LinkIds, url : Urls, slug : Slugs]

Next ==
  \/ \E r \in Slots, u \in UserIds, data \in Inputs, sweep \in Sweeps :
       createLink_gates(r, u, data, sweep)
  \/ \E r \in Slots, dbFails \in BOOLEAN : createLink_precheck(r, dbFails)
  \/ \E r \in Slots, dbFails \in BOOLEAN : createLink_persist(r, dbFails)
  \/ \E r \in Slots, u \in UserIds, data \in UpdateInputs, sweep \in Sweeps :
       updateLink_gates(r, u, data, sweep)
  \/ \E r \in Slots, dbFails \in BOOLEAN : updateLink_ownership(r, dbFails)
  \/ \E r \in Slots, dbFails \in BOOLEAN : updateLink_slugcheck(r, dbFails)
  \/ \E r \in Slots, dbFails \in BOOLEAN : updateLink_persist(r, dbFails)
  \/ \E r \in Slots, u \in UserIds, linkId \in LinkIds, sweep \in Sweeps :
       deleteLink_gates(r, u, linkId, sweep)
  \/ \E r \in Slots, dbFails \in BOOLEAN : deleteLink_ownership(r, dbFails)
  \/ \E r \in Slots, dbFails \in BOOLEAN : deleteLink_persist(r, dbFails)
  \/ \E r \in Slots, slug \in Slugs, dbFails \in BOOLEAN : GET(r, slug, dbFails)
  \/ \E d \in TickSteps : Tick(d)

Spec == Init /\ [][Next]_vars

\* The service after a burst: at time 0 user_A sent requests that failed
\* validation (or, for deleteLink, named no link), which leaves the table
\* empty and the counters of the burst in the rate limiter's Map.
Bursts == { <<9, 0, 0>>, <<10, 19, 19>>, <<10, 20, 20>> }

BurstStore(b) ==
  [k \in {Identifier(Prefixes_seq[i], "user_A") : i \in {j \in 1..3 : b[j] > 0}} |->
     [count |-> b[CHOOSE i \in 1..3 : Identifier(Prefixes_seq[i], "user_A") = k],
      resetTime |-> WINDOW_MS]]

InitBurst ==
  /\ links = {}
  /\ links_id_seq = 1
  /\ store \in {BurstStore(b) : b \in Bursts}
  /\ now = 0
  /\ pc = [r \in Slots |-> "idle"]
  /\ req = [r \in Slots |-> NoRequest]
  /\ response = NoResponse
  /\ revalidated = FALSE
  /\ calls = 0
  /\ trace = << >>

SpecBurst == InitBurst /\ [][Next]_vars

\* The service over a table that holds a row written outside the service
\* (the column original_url is text NOT NULL and nothing more).
StoredOutside == {UrlJavascript, UrlGarbage}

InitStored ==
  /\ \E u \in StoredOutside :
       links = {NewRow(1, [userId |-> "user_A", slug |-> SlugAbc, originalUrl |-> u], 0)}
  /\ links_id_seq = 2
  /\ store = << >>
  /\ now = 0
  /\ pc = [r \in Slots |-> "idle"]
  /\ req = [r \in Slots |-> NoRequest]
  /\ response = NoResponse
  /\ revalidated = FALSE
  /\ calls = 0
  /\ trace = << >>

SpecStored == InitStored /\ [][Next]_vars


\* The service right after a deletion: user_A created link 1 with slug
\* SlugAbc and deleted it, both at time 0; the deleteLink has just returned
\* success.
InitFreed ==
  /\ links = {}
  /\ links_id_seq = 2
  /\ store = [k \in {Identifier("create-link", "user_A"), Identifier("delete-link", "user_A")} |->
               [count |-> 1, resetTime |-> WINDOW_MS]]
  /\ now = 0
  /\ pc = [r \in Slots |-> "idle"]
  /\ req = [r \in Slots |-> NoRequest]
  /\ response = Returned(1, "deleteLink", "user_A", Success(Null))
  /\ revalidated = TRUE
  /\ calls = 0
  /\ trace = << >>

SpecFreed == InitFreed /\ [][Next]_vars

\* The service and the script scripts/update-user-ids.ts, which an operator
\* runs against the same table: UPDATE links SET user_id = correctUserId, when
\* the table holds a row.
correctUserId == "user_37XNulO5aedDmNg04TfWi82DSis"

updateUserIds ==
  /\ links # {}
  /\ links' = {[l EXCEPT !.userId = correctUserId] : l \in links}
  /\ response' = NoResponse
  /\ revalidated' = FALSE
  /\ UNCHANGED <<links_id_seq, store, now, pc, req, calls, trace>>

NextScripts == Next \/ updateUserIds

SpecScripts == Init /\ [][NextScripts]_vars

\* ------------------------------------------- lib/rate-limit.ts on its own
\* checkRateLimit called directly, as the server actions call it: each
\* identifier with its fixed max and windowMs.  The clock moves by 1 ms.
LimiterCalls == 5
LimiterHorizon == 4

Limiters ==
  { [identifier |-> Identifier("one", "user_A"), max |-> 1, windowMs |-> 1],
    [identifier |-> Identifier("two", "user_A"), max |-> 2, windowMs |-> 2] }

InitLimiter == Init

\* One call of checkRateLimit; trace records the call and its answer.
Call(lim, sweep) ==
  LET rl == checkRateLimit(store, lim.identifier, lim.max, lim.windowMs, now, sweep)
  IN  /\ Len(trace) < LimiterCalls
      /\ store' = rl.store
      /\ trace' = Append(trace, [identifier |-> lim.identifier, max |-> lim.max,
                                 windowMs |-> lim.windowMs, now |-> now,
                                 sweep |-> sweep, allowed |-> rl.allowed])
      /\ UNCHANGED <<links, links_id_seq, now, pc, req, response, revalidated, calls>>

Advance ==
  /\ now < LimiterHorizon
  /\ now' = now + 1
  /\ UNCHANGED <<links, links_id_seq, store, pc, req, response, revalidated, calls, trace>>

NextLimiter ==
  \/ \E lim \in Limiters, sweep \in Sweeps : Call(lim, sweep)
  \/ Advance

SpecLimiter == InitLimiter /\ [][NextLimiter]_vars

\* The three exports of lib/rate-limit.ts together.  getRemainingRequests is
\* asked with any max; its answer is handed to the caller.  trace records a
\* resetRateLimit as it records a checkRateLimit.
Asked == {1, 2}

Remaining(lim, max) ==
  /\ Len(trace) < LimiterCalls
  /\ response' = [slot |-> 1, op |-> "getRemainingRequests", identifier |-> lim.identifier,
                  max |-> max, value |-> getRemainingRequests(store, lim.identifier, max, now)]
  /\ UNCHANGED <<links, links_id_seq, store, now, pc, req, revalidated, calls, trace>>

Reset(lim) ==
  /\ Len(trace) < LimiterCalls
  /\ store' = resetRateLimit(store, lim.identifier)
  /\ trace' = Append(trace, [identifier |-> lim.identifier, reset |-> TRUE])
  /\ UNCHANGED <<links, links_id_seq, now, pc, req, response, revalidated, calls>>

NextLimiterApi ==
  \/ \E lim \in Limiters, sweep \in Sweeps : Call(lim, sweep)
  \/ \E lim \in Limiters, max \in Asked : Remaining(lim, max)
  \/ \E lim \in Limiters : Reset(lim)
  \/ Advance

SpecLimiterApi == InitLimiter /\ [][NextLimiterApi]_vars

\* ------------------------------------------- the input gates on their own
\* safeParse and the protocol check (steps 2, 2b of createLink and
\* updateLink) applied to inputs at the limits of the schema.
ShapeCalls == 2

Pad(n) == [i \in 1..n |-> "a"]

ShapeSlugs ==
  { << >>, <<"a","b">>, <<"a",".">>, SlugAbc, <<"a","_","1">>, <<"a"," ","b">>,
    <<"a",".","b">>, Pad(SLUG_MAX), Pad(SLUG_MAX + 1), Pad(SLUG_MAX) \o <<".">> }

ShapeInputs == [url : {UrlHttps, UrlJavascript, UrlGarbage}, slug : ShapeSlugs]

InitShapes == Init

\* One validation; trace records the input and what the gates returned.
Validate(data) ==
  /\ Len(trace) < ShapeCalls
  /\ trace' = Append(trace, [data |-> data, result |-> ValidateInput(data)])
  /\ UNCHANGED <<links, links_id_seq, store, now, pc, req, response, revalidated, calls>>

NextShapes == \E data \in ShapeInputs : Validate(data)

SpecShapes == InitShapes /\ [][NextShapes]_vars

\* ---------------------------------------------- data/links.ts on its own
\* The data layer called directly and the dashboard page over its table.
\* The clock moves by 1 ms.
DataCalls == 4
DataHorizon == 2

DataSlugs == {SlugAbc, SlugXyz, <<"a","_","1">>}
DataRows == [userId : Users, slug : DataSlugs, originalUrl : {UrlHttps}]
DataUpdates == [slug : DataSlugs, originalUrl : {UrlHttps, UrlHttp}]
DataIds == 1..(DataCalls - 1)

InitData == Init

Insert(data) ==
  LET ins == createLinkInDb(links, links_id_seq, data, now)
  IN  /\ calls < DataCalls
      /\ calls' = calls + 1
      /\ links' = ins.links
      /\ links_id_seq' = ins.seq
      /\ response' = NoResponse
      /\ UNCHANGED <<store, now, pc, req, revalidated, trace>>

Update(linkId, data) ==
  LET upd == updateLinkInDb(links, linkId, data, now)
  IN  /\ calls < DataCalls
      /\ calls' = calls + 1
      /\ links' = upd.links
      /\ response' = NoResponse
      /\ UNCHANGED <<links_id_seq, store, now, pc, req, revalidated, trace>>

Delete(linkId) ==
  /\ calls < DataCalls
  /\ calls' = calls + 1
  /\ links' = deleteLinkInDb(links, linkId)
  /\ response' = NoResponse
  /\ UNCHANGED <<links_id_seq, store, now, pc, req, revalidated, trace>>

\* The page: auth(), redirect("/") without a session, else the rows of
\* getUserLinks(userId), rendered in the order of the array.
DashboardPage(userId) ==
  /\ calls < DataCalls
  /\ calls' = calls + 1
  /\ IF userId = NoUserId
     THEN response' = Returned(1, "DashboardPage", userId, [redirect |-> "/"])
     ELSE \E rows \in getUserLinks(links, userId) :
            response' = Returned(1, "DashboardPage", userId, [links |-> rows])
  /\ UNCHANGED <<links, links_id_seq, store, now, pc, req, revalidated, trace>>

AdvanceData ==
  /\ now < DataHorizon
  /\ now' = now + 1
  /\ response' = NoResponse
  /\ UNCHANGED <<links, links_id_seq, store, pc, req, revalidated, calls, trace>>

NextData ==
  \/ \E data \in DataRows : Insert(data)
  \/ \E linkId \in DataIds, data \in DataUpdates : Update(linkId, data)
  \/ \E linkId \in DataIds : Delete(linkId)
  \/ \E userId \in UserIds : DashboardPage(userId)
  \/ AdvanceData

SpecData == InitData /\ [][NextData]_vars

\* ================================================================== claims
HoldsSlug(tbl, slug) == \E l \in tbl : l.slug = slug

\* C1: in every reachable state no two stored links have the same slug.
C1_SlugUnique == \A l1 \in links, l2 \in links : l1.slug = l2.slug => l1 = l2

\* Two links are stored and the step just taken was an update that went through.
C1_Witness ==
  /\ Cardinality(links) = 2
  /\ response # NoResponse /\ response.op = "updateLink"
  /\ ~response.threw /\ response.value.success

\* C2: a createLink that passed the pre-check and whose insert finds the slug
\* taken by then persists nothing (one link holds the slug), returns the
\* generic failure of createLink and leaves every stored link as it was.
C2_RaceLoserFails ==
  [][\A r \in Slots :
       (createLink_persist(r, FALSE) /\ HoldsSlug(links, req[r].data.slug))
         => /\ response' = Returned(r, "createLink", req[r].userId, Failure(MsgCreateFailed))
            /\ links' = links
            /\ Cardinality({l \in links' : l.slug = req[r].data.slug}) = 1]_vars

\* Two requests were issued, both inserts ran (two ids drawn), one link is
\* stored and the step just taken returned the generic failure of createLink.
C2_Witness ==
  /\ calls = 2 /\ links_id_seq = 3 /\ Cardinality(links) = 1
  /\ response # NoResponse /\ response.op = "createLink" /\ ~response.threw
  /\ response.value = Failure(MsgCreateFailed)

\* C3: an updateLink or deleteLink that reaches the ownership lookup, finds
\* the target and finds it owned by someone else returns the permission
\* failure and leaves the table as it was.
C3_NonOwnerForbidden ==
  [][\A r \in Slots :
       /\ (/\ updateLink_ownership(r, FALSE)
           /\ \E l \in links : l.id = req[r].data.id /\ l.userId # req[r].userId)
            => /\ response' = Returned(r, "updateLink", req[r].userId, Failure(MsgForbiddenUpdate))
               /\ links' = links
       /\ (/\ deleteLink_ownership(r, FALSE)
           /\ \E l \in links : l.id = req[r].linkId /\ l.userId # req[r].userId)
            => /\ response' = Returned(r, "deleteLink", req[r].userId, Failure(MsgForbiddenDelete))
               /\ links' = links]_vars

\* The step just taken refused a non-owner's deleteLink; the link is stored.
C3_Witness ==
  /\ response # NoResponse /\ response.op = "deleteLink" /\ ~response.threw
  /\ response.value = Failure(MsgForbiddenDelete)
  /\ links # {}

\* C4: no request ever throws to its caller: whatever a request hands back is
\* a returned value.
C4_NeverThrows ==
  (response # NoResponse /\ response.op \in {"createLink", "updateLink", "deleteLink"})
    => ~response.threw

SchemeOf(u) == LowerCase(SubSeq(u, 1, IndexOfAny(u, {":"}) - 1))
IsHttpUrl(u) == SchemeOf(u) \in { <<"h","t","t","p">>, <<"h","t","t","p","s">> }

C6_SecondCreateSlugTaken ==
  [][\A r \in Slots :
       (createLink_precheck(r, FALSE) /\ HoldsSlug(links, req[r].data.slug))
         => /\ response' = Returned(r, "createLink", req[r].userId, Failure(MsgSlugTaken))
            /\ links' = links
            /\ links_id_seq' = links_id_seq]_vars

\* Two requests were issued, one link is stored and the step just taken
\* returned "This slug is already taken".
C6_Witness ==
  /\ calls = 2 /\ Cardinality(links) = 1
  /\ response # NoResponse /\ response.op = "createLink" /\ ~response.threw
  /\ response.value = Failure(MsgSlugTaken)

InvalidInputMsgs == {MsgValidUrl, MsgSlugMin, MsgSlugMax, MsgSlugChars}
UnsafeUrlMsgs == {MsgOnlyHttp, MsgUrlFormat}
EarlierGateMsgs == {MsgLoginCreate, MsgLoginUpdate, MsgRateLimited}

\* C7: from the empty table, every stored link's originalUrl has scheme http
\* or https: a createLink or updateLink whose URL has another scheme or none
\* never gets past its gates, and a request that returns at its gates returns
\* a failure (InvalidInput or UnsafeUrl unless an earlier gate refused it) and
\* leaves the table as it was.
C7_OnlyHttpStored ==
  /\ [](\A l \in links : IsHttpUrl(l.originalUrl))
  /\ [](\A r \in Slots :
          req[r].op \in {"createLink", "updateLink"} => IsHttpUrl(req[r].data.url))
  /\ [][(/\ calls' = calls + 1
         /\ response' # NoResponse
         /\ response'.op \in {"createLink", "updateLink"})
          => /\ ~response'.threw /\ ~response'.value.success
             /\ response'.value.error
                  \in InvalidInputMsgs \cup UnsafeUrlMsgs \cup EarlierGateMsgs
             /\ links' = links]_vars

\* A link is stored and the step just taken refused an updateLink for its
\* URL's scheme.
C7_Witness ==
  /\ links # {}
  /\ response # NoResponse /\ response.op = "updateLink" /\ ~response.threw
  /\ response.value = Failure(MsgOnlyHttp)

\* C8: whatever originalUrl the table holds, GET never redirects to a URL
\* whose scheme is not http or https: a stored URL with another scheme is
\* answered 400 "Invalid URL protocol", one with no scheme 400 "Invalid URL
\* format".
C8_NoUnsafeRedirect ==
  /\ []((response # NoResponse /\ response.op = "GET" /\ response.value.status = 307)
          => IsHttpUrl(response.value.location))
  /\ [][\A r \in Slots, slug \in Slugs :
          GET(r, slug, FALSE)
            => \A l \in links : (l.slug = slug /\ ~IsHttpUrl(l.originalUrl)) =>
                 response'.value =
                   [status |-> 400,
                    error |-> IF SchemeOf(l.originalUrl) = << >>
                              THEN MsgUrlFormat ELSE MsgProtocol]]_vars

\* The table holds a javascript: URL and the step just taken answered a GET
\* with 400 "Invalid URL protocol".
C8_Witness ==
  /\ \E l \in links : l.originalUrl = UrlJavascript
  /\ response # NoResponse /\ response.op = "GET"
  /\ response.value = [status |-> 400, error |-> MsgProtocol]

\* The step issues a request of operation op in the session of u (and runs
\* its gates).
Issues(op, u) ==
  /\ calls' = calls + 1
  /\ \/ response' # NoResponse /\ response'.op = op /\ response'.userId = u
     \/ /\ response' = NoResponse
        /\ \E r \in Slots : pc[r] = "idle" /\ pc'[r] # "idle"
                            /\ req'[r].op = op /\ req'[r].userId = u

\* The rate limiter refused the request the step issued.
Denied == response' # NoResponse /\ response'.value = Failure(MsgRateLimited)

\* The Map holds a record for k whose window has not passed.
Live(k) == k \in DOMAIN store /\ ~(now > store[k].resetTime)

\* C9: a createLink of a signed-in user passes the rate limiter while the
\* user's window holds fewer than 10 requests, counting itself in; with 10 in
\* the window it is refused with the RateLimited message and counts nothing;
\* with no window, or the window passed, it passes and starts a window of
\* 60000 ms with count 1.
C9_CreateWindow ==
  [][\A u \in Users :
       Issues("createLink", u) =>
         LET k == <<"create-link", u>>
         IN  /\ k \in DOMAIN store'
             /\ store'[k].count <= 10
             /\ IF ~Live(k)
                THEN ~Denied /\ store'[k] = [count |-> 1, resetTime |-> now + 60000]
                ELSE IF store[k].count < 10
                THEN ~Denied /\ store'[k] = [count |-> store[k].count + 1,
                                             resetTime |-> store[k].resetTime]
                ELSE Denied /\ store'[k] = store[k]]_vars

\* After nine requests in the window user_A's tenth createLink passed (it is
\* in flight) and the step just taken refused the eleventh.
C9_Witness ==
  /\ \E r \in Slots : req[r].op = "createLink" /\ req[r].userId = "user_A"
  /\ <<"create-link", "user_A">> \in DOMAIN store
  /\ store[<<"create-link", "user_A">>] = [count |-> 10, resetTime |-> 60000]
  /\ response # NoResponse /\ response.op = "createLink" /\ response.userId = "user_A"
  /\ response.value = Failure(MsgRateLimited)

KeyOf(op, u) ==
  <<CASE op = "createLink" -> "create-link"
      [] op = "updateLink" -> "update-link"
      [] op = "deleteLink" -> "delete-link", u>>

LimitOf(op) == IF op = "createLink" THEN 10 ELSE 20

Mutations == {"createLink", "updateLink", "deleteLink"}

\* A request of operation op by u is refused exactly when the window of its
\* own key holds the operation's limit (10 for create, 20 for update and for
\* delete).
RefusedByOwnKeyOnly(op, u) ==
  Denied <=> (Live(KeyOf(op, u)) /\ store[KeyOf(op, u)].count >= LimitOf(op))

\* C10 as stated: a request of operation op by u changes no entry of the Map
\* but the one of its own key, and is refused by its own key alone.
C10_OnlyOwnCounter ==
  [][\A u \in Users, op \in Mutations :
       Issues(op, u) =>
         /\ RefusedByOwnKeyOnly(op, u)
         /\ \A k \in (DOMAIN store \cup DOMAIN store') \ {KeyOf(op, u)} :
              k \in DOMAIN store /\ k \in DOMAIN store' /\ store'[k] = store[k]]_vars

\* C10 amended: a request of operation op by u is refused by its own key
\* alone, and of the other keys it changes nothing but to drop records whose
\* window has passed.
C10_IndependentCounters ==
  [][\A u \in Users, op \in Mutations :
       Issues(op, u) =>
         /\ RefusedByOwnKeyOnly(op, u)
         /\ \A k \in (DOMAIN store \cup DOMAIN store') \ {KeyOf(op, u)} :
              /\ k \in DOMAIN store
              /\ IF k \in DOMAIN store' THEN store'[k] = store[k]
                 ELSE now > store[k].resetTime]_vars

\* user_A's create window is full (10) and user_A's twentieth updateLink of
\* the window has just passed its gates.
C10_Witness ==
  /\ Live(<<"create-link", "user_A">>) /\ store[<<"create-link", "user_A">>].count = 10
  /\ Live(<<"update-link", "user_A">>) /\ store[<<"update-link", "user_A">>].count = 20
  /\ \E r \in Slots : req[r].op = "updateLink" /\ req[r].userId = "user_A"
                      /\ pc[r] = "ownership"

LoginMsg(op) ==
  CASE op = "createLink" -> MsgLoginCreate
    [] op = "updateLink" -> MsgLoginUpdate
    [] op = "deleteLink" -> MsgLoginDelete

\* C11: a createLink, updateLink or deleteLink issued with no signed-in user
\* returns the operation's "must be logged in" failure at once: the rate
\* limiter's Map, the table and the id sequence are as before, the request
\* waits on no database call and revalidatePath is not called.
C11_UnauthenticatedStops ==
  [][\A op \in Mutations :
       Issues(op, NoUserId)
         => /\ response' # NoResponse /\ ~response'.threw
            /\ response'.value = Failure(LoginMsg(op))
            /\ store' = store
            /\ links' = links /\ links_id_seq' = links_id_seq
            /\ pc' = pc /\ req' = req
            /\ revalidated' = FALSE]_vars

\* A link is stored, the Map holds a counter and the step just taken refused
\* a deleteLink that came with no session.
C11_Witness ==
  /\ links # {} /\ DOMAIN store # {}
  /\ response # NoResponse /\ response.op = "deleteLink" /\ response.userId = NoUserId
  /\ response.value = Failure(MsgLoginDelete)

\* C12: a mutation request of a signed-in user that the rate limiter refuses
\* (the window of its key is live and holds the operation's limit) returns the
\* RateLimited failure at once: the record of its key keeps its count and its
\* resetTime, the table and the id sequence are as before, the request waits
\* on no database call and revalidatePath is not called.
C12_DeniedStops ==
  [][\A u \in Users, op \in Mutations :
       (/\ Issues(op, u)
        /\ \/ Denied
           \/ Live(KeyOf(op, u)) /\ store[KeyOf(op, u)].count >= LimitOf(op))
         => /\ response' # NoResponse /\ ~response'.threw
            /\ response'.value = Failure(MsgRateLimited)
            /\ KeyOf(op, u) \in DOMAIN store /\ KeyOf(op, u) \in DOMAIN store'
            /\ store'[KeyOf(op, u)] = store[KeyOf(op, u)]
            /\ links' = links /\ links_id_seq' = links_id_seq
            /\ pc' = pc /\ req' = req
            /\ revalidated' = FALSE]_vars

\* user_A's delete window holds 20 requests and the step just taken refused
\* user_A's deleteLink.
C12_Witness ==
  /\ <<"delete-link", "user_A">> \in DOMAIN store
  /\ store[<<"delete-link", "user_A">>] = [count |-> 20, resetTime |-> 60000]
  /\ response # NoResponse /\ response.op = "deleteLink" /\ response.userId = "user_A"
  /\ response.value = Failure(MsgRateLimited)

\* A stored URL GET may not redirect to: it does not parse, or its scheme is
\* not http or https.
UnsafeUrl(u) == ~NewURL(u).ok \/ ~IsHttpUrl(u)

\* C13: a GET whose lookup reaches the database answers 404 "Link not found"
\* exactly when no link has the slug, 400 (and not "Link not found") when the
\* link's stored URL does not parse or has a scheme other than http/https,
\* and 307 to the stored URL otherwise.
C13_ResolveOutcomes ==
  [][\A r \in Slots, slug \in Slugs :
       GET(r, slug, FALSE)
         => LET hit == {l \in links : l.slug = slug}
            IN  /\ response' # NoResponse /\ ~response'.threw
                /\ response'.value.status \in {404, 400, 307}
                /\ (response'.value.status = 404) <=> (hit = {})
                /\ hit = {} => response'.value = [status |-> 404, error |-> MsgNotFound]
                /\ \A l \in hit :
                     IF UnsafeUrl(l.originalUrl)
                     THEN /\ response'.value.status = 400
                          /\ response'.value.error # MsgNotFound
                     ELSE response'.value = [status |-> 307, location |-> l.originalUrl]]_vars

\* The table holds a row whose URL does not parse and the step just taken
\* answered a GET of another slug with 404 "Link not found".
C13_Witness ==
  /\ \E l \in links : l.originalUrl = UrlGarbage
  /\ response # NoResponse /\ response.op = "GET"
  /\ response.value = [status |-> 404, error |-> MsgNotFound]

\* C14: a GET whose lookup throws answers 500 "Internal server error" (no
\* redirect, no 404) and leaves the table as it was.
C14_LookupFailure500 ==
  [][\A r \in Slots, slug \in Slugs :
       GET(r, slug, TRUE)
         => /\ response' = Returned(r, "GET", NoUserId,
                                    [status |-> 500, error |-> MsgInternal])
            /\ links' = links]_vars

\* A link with slug abc is stored and the step just taken answered a GET
\* with 500.
C14_Witness ==
  /\ \E l \in links : l.slug = SlugAbc
  /\ response # NoResponse /\ response.op = "GET"
  /\ response.value = [status |-> 500, error |-> MsgInternal]

\* C15: a GET changes neither the table, the id sequence nor the rate
\* limiter's Map, calls no revalidatePath and is never refused by the rate
\* limiter; when its lookup reaches the database its answer is the answer the
\* table it leaves gives for the slug, so that a GET repeated with no
\* mutation in between is answered the same.
C15_ResolvePure ==
  [][\A r \in Slots, slug \in Slugs, dbFails \in BOOLEAN :
       GET(r, slug, dbFails)
         => /\ links' = links /\ links_id_seq' = links_id_seq
            /\ store' = store
            /\ pc' = pc /\ req' = req
            /\ revalidated' = FALSE
            /\ response' # NoResponse /\ ~response'.threw
            /\ response'.value.status \in {307, 400, 404, 500}
            /\ response'.value # Failure(MsgRateLimited)
            /\ ~dbFails => response'.value = GETResponse(getLinkBySlug(links', slug))]_vars

\* user_A's create window is full (10 requests) and the step just taken
\* answered a GET with a redirect.
C15_Witness ==
  /\ Live(<<"create-link", "user_A">>) /\ store[<<"create-link", "user_A">>].count = 10
  /\ response # NoResponse /\ response.op = "GET" /\ response.value.status = 307

\* C16: a stored link keeps its owner at every step, and a link enters the
\* table with the user of the createLink that inserted it as its owner.
C16_OwnerNeverChanges ==
  [][/\ \A l \in links, l2 \in links' : l2.id = l.id => l2.userId = l.userId
     /\ \A r \in Slots :
          createLink_persist(r, FALSE)
            => \A l2 \in links' \ links : l2.userId = req[r].userId]_vars

\* C17: an updateLink or deleteLink that finds its target owned by someone
\* else returns what it would return if no link had the id.
C17_ExistenceHidden ==
  [][\A r \in Slots :
       /\ updateLink_ownership(r, FALSE)
            => \A l \in links :
                 (l.id = req[r].data.id /\ l.userId # req[r].userId)
                   => response' = Returned(r, "updateLink", req[r].userId,
                        VerifyOwnership(getLinkById(links \ {l}, l.id),
                                        req[r].userId, MsgForbiddenUpdate)[1])
       /\ deleteLink_ownership(r, FALSE)
            => \A l \in links :
                 (l.id = req[r].linkId /\ l.userId # req[r].userId)
                   => response' = Returned(r, "deleteLink", req[r].userId,
                        VerifyOwnership(getLinkById(links \ {l}, l.id),
                                        req[r].userId, MsgForbiddenDelete)[1])]_vars

\* C18: an updateLink that returns success returns a link of the table as
\* its data.
C18_SuccessCarriesLink ==
  (/\ response # NoResponse /\ response.op = "updateLink"
   /\ ~response.threw /\ response.value.success)
    => /\ response.value.data # Undefined
       /\ response.value.data \in links

\* C19: a step that removes a stored link or changes its slug or its
\* originalUrl is the persist step of an updateLink or deleteLink for that
\* link's id, issued in the session of the link's owner.
C19_OnlyOwnerMutates ==
  [][\A l \in links :
       (~ \E l2 \in links' : /\ l2.id = l.id /\ l2.slug = l.slug
                             /\ l2.originalUrl = l.originalUrl)
         => \E r \in Slots :
              /\ pc[r] = "persist" /\ pc'[r] = "idle"
              /\ req[r].userId = l.userId
              /\ \/ req[r].op = "updateLink" /\ req[r].data.id = l.id
                 \/ req[r].op = "deleteLink" /\ req[r].linkId = l.id]_vars

\* user_B's deleteLink for user_A's link stands before its ownership lookup
\* and the step just taken persisted user_A's updateLink of that link.
C19_Witness ==
  /\ response # NoResponse /\ response.op = "updateLink" /\ response.userId = "user_A"
  /\ ~response.threw /\ response.value.success /\ response.value.data \in links
  /\ \E r \in Slots : /\ req[r].op = "deleteLink" /\ req[r].userId = "user_B"
                      /\ pc[r] = "ownership"
                      /\ req[r].linkId = response.value.data.id

\* The shape gate refuses the input: the URL does not parse, or the slug is
\* shorter than 3, longer than 50 or holds a character outside [a-zA-Z0-9-_].
BadShape(data) ==
  \/ ~NewURL(data.url).ok
  \/ Len(data.slug) < 3 \/ Len(data.slug) > 50 \/ ~SlugRegex(data.slug)

\* Steps 2 and 2b on every input: an input of bad shape is refused with one
\* InvalidInput message whatever its scheme, an input of good shape whose
\* scheme is not http or https with the UnsafeUrl message, any other input
\* passes.
ShapeThenScheme ==
  \A data \in Inputs :
    LET refused == ValidateInput(data)
    IN  IF BadShape(data)
        THEN refused # << >> /\ ~refused[1].success /\ refused[1].error \in InvalidInputMsgs
        ELSE IF ~IsHttpUrl(data.url)
        THEN refused = <<Failure(MsgOnlyHttp)>>
        ELSE refused = << >>

\* The step is the gates of a request that returned at them.
ReturnsAtGates(op) ==
  calls' = calls + 1 /\ response' # NoResponse /\ response'.op = op

\* C20: a mutation request returns one failure, that of the first gate that
\* refuses it, in the order authenticate, rate-limit, shape, scheme,
\* existence, ownership, uniqueness.  A request with no session returns the
\* login failure; else one whose window is full the RateLimited failure
\* whatever its input; else one of bad shape an InvalidInput failure and one
\* of unsafe scheme the UnsafeUrl failure, whatever the table holds; only a
\* request that none of these gates refuses reaches a lookup; the lookup of
\* the target answers "Link not found" or the permission failure whatever
\* slug is asked for; "This slug is already taken" comes from the step after
\* it only.
C20_FailFast ==
  [][/\ \A op \in Mutations :
          ReturnsAtGates(op)
            => /\ ~response'.threw /\ ~response'.value.success
               /\ IF response'.userId = NoUserId
                  THEN response'.value.error = LoginMsg(op)
                  ELSE IF /\ Live(KeyOf(op, response'.userId))
                          /\ store[KeyOf(op, response'.userId)].count >= LimitOf(op)
                  THEN response'.value.error = MsgRateLimited
                  ELSE /\ op # "deleteLink"
                       /\ response'.value.error \in InvalidInputMsgs \cup {MsgOnlyHttp}
     /\ ShapeThenScheme
     /\ \A r \in Slots :
          (pc[r] = "idle" /\ pc'[r] # "idle" /\ req'[r].op \in {"createLink", "updateLink"})
            => /\ req'[r].userId # NoUserId
               /\ ~BadShape(req'[r].data) /\ IsHttpUrl(req'[r].data.url)
               /\ ~(/\ Live(KeyOf(req'[r].op, req'[r].userId))
                    /\ store[KeyOf(req'[r].op, req'[r].userId)].count >= LimitOf(req'[r].op))
     /\ \A r \in Slots :
          updateLink_ownership(r, FALSE)
            => IF ~ \E l \in links : l.id = req[r].data.id
               THEN response' = Returned(r, "updateLink", req[r].userId, Failure(MsgNotFound))
               ELSE IF \E l \in links : l.id = req[r].data.id /\ l.userId # req[r].userId
               THEN response' = Returned(r, "updateLink", req[r].userId,
                                         Failure(MsgForbiddenUpdate))
               ELSE response' = NoResponse
     /\ \A r \in Slots :
          (updateLink_slugcheck(r, FALSE) /\ response' # NoResponse)
            => /\ response' = Returned(r, "updateLink", req[r].userId, Failure(MsgSlugTaken))
               /\ \E l \in links : l.slug = req[r].data.slug /\ l.id # req[r].data.id]_vars

\* user_A's create window is full, and the step just taken refused user_B's
\* updateLink for its slug although no link is stored.
C20_Witness ==
  /\ Live(<<"create-link", "user_A">>) /\ store[<<"create-link", "user_A">>].count = 10
  /\ links = {}
  /\ response # NoResponse /\ response.op = "updateLink" /\ response.userId = "user_B"
  /\ response.value.error \in {MsgSlugMin, MsgSlugChars}

\* The answer and the record the reference fixed-window rule gives a call
\* for a key whose record is rec (<< >> when the Map holds none).
ReferenceRule(rec, max, windowMs, t) ==
  IF rec = << >> \/ t > rec[1].resetTime
  THEN [allowed |-> TRUE, record |-> [count |-> 1, resetTime |-> t + windowMs]]
  ELSE IF rec[1].count < max
  THEN [allowed |-> TRUE, record |-> [count |-> rec[1].count + 1,
                                      resetTime |-> rec[1].resetTime]]
  ELSE [allowed |-> FALSE, record |-> rec[1]]

\* C21: every call of checkRateLimit answers as the reference fixed-window
\* rule does and leaves the record of its identifier as the rule leaves it:
\* no record or now > resetTime starts a window (count 1, resetTime now +
\* windowMs, allowed); else count < max adds exactly 1, keeps resetTime and
\* allows; else the call is denied and the record is as it was.  A call at
\* now = resetTime falls under the old window.
C21_FixedWindowRule ==
  [][\A lim \in Limiters, sweep \in BOOLEAN :
       Call(lim, sweep)
         => LET k == lim.identifier
                rec == IF k \in DOMAIN store THEN <<store[k]>> ELSE << >>
                ref == ReferenceRule(rec, lim.max, lim.windowMs, now)
            IN  /\ trace'[Len(trace')].allowed = ref.allowed
                /\ k \in DOMAIN store'
                /\ store'[k] = ref.record
                /\ (k \in DOMAIN store /\ now = store[k].resetTime)
                     => store'[k].resetTime = store[k].resetTime]_vars

\* The call just made came at now = resetTime of its window and was counted
\* in it as the second of two.
C21_Witness ==
  /\ trace # << >>
  /\ LET last == trace[Len(trace)]
     IN  /\ last.allowed /\ last.now = now /\ last.max = 2
         /\ store[last.identifier] = [count |-> 2, resetTime |-> now]

\* The Map after the calls of tr made with no sweep at all.
RECURSIVE NoSweepStore(_)
NoSweepStore(tr) ==
  IF tr = << >> THEN << >>
  ELSE LET e == tr[Len(tr)]
       IN  checkRateLimit(NoSweepStore(SubSeq(tr, 1, Len(tr) - 1)),
                          e.identifier, e.max, e.windowMs, e.now, FALSE).store

\* The answer to the i-th call of tr when no call sweeps.
NoSweepAnswer(tr, i) ==
  checkRateLimit(NoSweepStore(SubSeq(tr, 1, i - 1)),
                 tr[i].identifier, tr[i].max, tr[i].windowMs, tr[i].now, FALSE).allowed

\* C22: whichever calls sweep, every call is answered as in the same sequence
\* of calls made with no sweep; the Map holds the records of the sweep-free
\* run but for records whose window has passed, and a call removes a record
\* only when now > resetTime.
C22_SweepIsInvisible ==
  /\ [](/\ \A i \in 1..Len(trace) : trace[i].allowed = NoSweepAnswer(trace, i)
        /\ DOMAIN store \subseteq DOMAIN NoSweepStore(trace)
        /\ \A k \in DOMAIN NoSweepStore(trace) :
             IF k \in DOMAIN store THEN store[k] = NoSweepStore(trace)[k]
             ELSE now > NoSweepStore(trace)[k].resetTime)
  /\ [][\A k \in DOMAIN store \ DOMAIN store' : now > store[k].resetTime]_vars

\* A call swept a record away, and the call just made on the identifier of
\* that record, within what was its window, started a new one as it would
\* have without the sweep.
C22_Witness ==
  /\ Len(trace) >= 3
  /\ \E i \in 1..(Len(trace) - 1) :
       /\ trace[i].sweep
       /\ trace[i].identifier # trace[Len(trace)].identifier
       /\ \E j \in 1..(i - 1) :
            /\ trace[j].identifier = trace[Len(trace)].identifier
            /\ trace[j].now + trace[j].windowMs < trace[i].now
  /\ trace[Len(trace)].allowed
  /\ DOMAIN store = DOMAIN NoSweepStore(trace)

\* The allowed calls of lim at times s .. s + windowMs.
AllowedIn(lim, s) ==
  Cardinality({i \in 1..Len(trace) :
                 /\ trace[i].identifier = lim.identifier /\ trace[i].allowed
                 /\ s <= trace[i].now /\ trace[i].now <= s + lim.windowMs})

\* The calls of tr on the identifier of lim.
CallsOf(lim, tr) ==
  LET Mine(e) == e.identifier = lim.identifier
  IN  SelectSeq(tr, Mine)

\* C23 as stated: no span of windowMs holds more than 2 x max allowed calls,
\* and a burst straddling a window boundary -- max calls in the last
\* millisecond of a window (now = resetTime) followed by max calls in the
\* next millisecond, which opens the next window -- is allowed whole.
C23_StraddlingBurst ==
  \A lim \in Limiters :
    /\ \A s \in 0..LimiterHorizon : AllowedIn(lim, s) <= 2 * lim.max
    /\ LET q == CallsOf(lim, trace)
           m == Len(q)
       IN  (/\ m >= 2 * lim.max
            /\ \A i \in (m - 2 * lim.max + 1)..(m - lim.max) : q[i].now + 1 = q[m].now
            /\ \A i \in (m - lim.max + 1)..m : q[i].now = q[m].now
            /\ store[lim.identifier].resetTime = q[m].now + lim.windowMs)
             => \A i \in (m - 2 * lim.max + 1)..m : q[i].allowed

\* C23 amended: no span of windowMs holds more than 2 x max - 1 allowed
\* calls of one identifier.
C23_SpanBound ==
  \A lim \in Limiters, s \in 0..LimiterHorizon : AllowedIn(lim, s) <= 2 * lim.max - 1

\* Three calls (2 x max - 1 for max = 2) were allowed within one span of
\* windowMs: the last of a window and the first two of the next.
C23_Witness ==
  \E lim \in Limiters, s \in 0..LimiterHorizon :
    /\ lim.max = 2
    /\ AllowedIn(lim, s) = 3
    /\ store[lim.identifier].count = 2
    /\ store[lim.identifier].resetTime > s + lim.windowMs

SlugAlphabet == Range(LowerLetters) \cup Range(UpperLetters) \cup Digits \cup {"-", "_"}

\* The message of the earliest rule the input violates in the order url,
\* slug min, slug max, slug characters; << >> when it violates none.
FirstViolated(data) ==
  IF ~NewURL(data.url).ok THEN <<MsgValidUrl>>
  ELSE IF Len(data.slug) < 3 THEN <<MsgSlugMin>>
  ELSE IF Len(data.slug) > 50 THEN <<MsgSlugMax>>
  ELSE IF \E i \in 1..Len(data.slug) : data.slug[i] \notin SlugAlphabet THEN <<MsgSlugChars>>
  ELSE << >>

\* C28: an input that violates rules of the schema is refused with the
\* message of the earliest rule it violates in the order url, slug min
\* length, slug max length, slug characters, and with that message alone; an
\* input validated twice gets the same result.
C28_FirstRuleReported ==
  /\ \A i \in 1..Len(trace) :
       FirstViolated(trace[i].data) # << >>
         => trace[i].result = <<Failure(FirstViolated(trace[i].data)[1])>>
  /\ \A i, j \in 1..Len(trace) :
       trace[i].data = trace[j].data => trace[i].result = trace[j].result

\* A malformed URL with the slug "a." (too short, and with a '.') was
\* validated twice and refused for its URL.
C28_Witness ==
  /\ Len(trace) = 2
  /\ \A i \in 1..2 :
       /\ trace[i].data = [url |-> UrlGarbage, slug |-> <<"a", ".">>]
       /\ trace[i].result = <<Failure(MsgValidUrl)>>

\* C29: with a well-formed URL, the shape gate lets a slug through exactly
\* when it has 3 to 50 characters, each a letter, a digit, '-' or '_'; any
\* other slug is refused with an InvalidInput message.
C29_SlugBoundaries ==
  \A i \in 1..Len(trace) :
    LET data == trace[i].data
        refused == trace[i].result
        wellShaped == /\ 3 <= Len(data.slug) /\ Len(data.slug) <= 50
                      /\ \A c \in 1..Len(data.slug) : data.slug[c] \in SlugAlphabet
    IN  NewURL(data.url).ok
          => IF wellShaped
             THEN refused = << >> \/ refused[1].error \notin InvalidInputMsgs
             ELSE refused # << >> /\ refused[1].error \in {MsgSlugMin, MsgSlugMax, MsgSlugChars}

\* A slug of 50 characters was let through and one of 51 refused for its
\* length.
C29_Witness ==
  /\ Len(trace) = 2
  /\ trace[1].data = [url |-> UrlHttps, slug |-> Pad(50)] /\ trace[1].result = << >>
  /\ trace[2].data = [url |-> UrlHttps, slug |-> Pad(51)]
  /\ trace[2].result = <<Failure(MsgSlugMax)>>

\* C24: an updateLink of the link's owner looks the slug up only when it
\* differs from the link's slug; the lookup that finds the slug held by
\* another link returns "This slug is already taken" and leaves the table as
\* it was; an update that keeps the link's slug goes straight to the persist
\* step, which writes the row and returns success with it.
C24_UpdateUniqueness ==
  [][\A r \in Slots :
       /\ (/\ updateLink_ownership(r, FALSE)
           /\ \E l \in links : l.id = req[r].data.id /\ l.userId = req[r].userId)
            => /\ response' = NoResponse
               /\ \A l \in links :
                    l.id = req[r].data.id
                      => pc'[r] = IF l.slug = req[r].data.slug THEN "persist" ELSE "slugcheck"
       /\ (/\ updateLink_slugcheck(r, FALSE)
           /\ \E l \in links : l.slug = req[r].data.slug /\ l.id # req[r].data.id)
            => /\ response' = Returned(r, "updateLink", req[r].userId, Failure(MsgSlugTaken))
               /\ links' = links
       /\ (/\ updateLink_persist(r, FALSE)
           /\ \E l \in links : l.id = req[r].data.id /\ l.slug = req[r].data.slug)
            => /\ ~response'.threw /\ response'.value.success
               /\ response'.value.data \in links'
               /\ response'.value.data.id = req[r].data.id
               /\ response'.value.data.slug = req[r].data.slug
               /\ response'.value.data.originalUrl = req[r].data.url]_vars

\* Two links are stored and the step just taken refused an updateLink with
\* "This slug is already taken".
C24_Witness ==
  /\ Cardinality(links) = 2
  /\ response # NoResponse /\ response.op = "updateLink" /\ ~response.threw
  /\ response.value = Failure(MsgSlugTaken)

\* C25: a persist step whose database call fails (the call throws, or the
\* unique index rejects the slug) returns the generic failure of its
\* operation, leaves the table as it was and calls no revalidatePath.
C25_PersistFailure ==
  [][\A r \in Slots :
       /\ (\/ createLink_persist(r, TRUE)
           \/ createLink_persist(r, FALSE) /\ HoldsSlug(links, req[r].data.slug))
            => /\ response' = Returned(r, "createLink", req[r].userId, Failure(MsgCreateFailed))
               /\ links' = links /\ ~revalidated'
       /\ (\/ updateLink_persist(r, TRUE)
           \/ /\ updateLink_persist(r, FALSE)
              /\ \E l \in links : l.id = req[r].data.id
              /\ \E l \in links : l.slug = req[r].data.slug /\ l.id # req[r].data.id)
            => /\ response' = Returned(r, "updateLink", req[r].userId, Failure(MsgUpdateFailed))
               /\ links' = links /\ ~revalidated'
       /\ deleteLink_persist(r, TRUE)
            => /\ response' = Returned(r, "deleteLink", req[r].userId, Failure(MsgDeleteFailed))
               /\ links' = links /\ ~revalidated']_vars

\* A link is stored and the step just taken returned the generic failure of
\* deleteLink.
C25_Witness ==
  /\ links # {}
  /\ response # NoResponse /\ response.op = "deleteLink" /\ ~response.threw
  /\ response.value = Failure(MsgDeleteFailed)

\* C26: revalidatePath is called in exactly the steps in which a createLink,
\* updateLink or deleteLink returns success, and such a step is the persist
\* step with which the request ends; no request that returns a failure or
\* throws calls it.
C26_InvalidationOnSuccess ==
  [][/\ revalidated'
          <=> (/\ response' # NoResponse /\ response'.op \in Mutations
               /\ ~response'.threw /\ response'.value.success)
     /\ revalidated'
          => \E r \in Slots : /\ pc[r] = "persist" /\ pc'[r] = "idle"
                              /\ response'.slot = r /\ response'.op = req[r].op]_vars

\* The step just taken deleted the last link and called revalidatePath.
C26_Witness ==
  /\ revalidated /\ links = {} /\ links_id_seq > 1
  /\ response # NoResponse /\ response.op = "deleteLink" /\ response.value = Success(Null)

C30_LastWriteWins ==
  [][\A l \in links, l2 \in links' :
       (l2.id = l.id /\ (l2.slug # l.slug \/ l2.originalUrl # l.originalUrl))
         => \E r \in Slots :
              /\ updateLink_persist(r, FALSE)
              /\ req[r].data.id = l.id
              /\ l2.slug = req[r].data.slug /\ l2.originalUrl = req[r].data.url
              /\ response'.value = Success(l2)]_vars

\* Two updateLinks of the owner for one link passed their lookups with
\* different slugs and different URLs; the step just taken persisted one, the
\* other stands before its persist step.
C30_Witness ==
  /\ response # NoResponse /\ response.op = "updateLink" /\ ~response.threw
  /\ response.value.success /\ response.value.data \in links
  /\ \E r \in Slots :
       /\ pc[r] = "persist" /\ req[r].op = "updateLink"
       /\ req[r].userId = response.userId
       /\ req[r].data.id = response.value.data.id
       /\ req[r].data.slug # response.value.data.slug
       /\ req[r].data.url # response.value.data.originalUrl

\* C31: the array the dashboard page gets from getUserLinks(userId) holds
\* every stored link of userId once, no link of another owner, and no entry
\* before one that was created later.
C31_ListingExact ==
  (response # NoResponse /\ response.op = "DashboardPage" /\ response.userId # NoUserId)
    => LET s == response.value.links
       IN  /\ \A l \in links : l.userId = response.userId <=> \E i \in DOMAIN s : s[i] = l
           /\ \A i \in DOMAIN s : s[i] \in links
           /\ \A i, j \in DOMAIN s :
                i < j => s[i] # s[j] /\ s[i].createdAt >= s[j].createdAt

\* The table holds links of both users; the page of one user lists two
\* links created at different times, the later one first.
C31_Witness ==
  /\ response # NoResponse /\ response.op = "DashboardPage" /\ response.userId # NoUserId
  /\ \E l \in links : l.userId # response.userId
  /\ Len(response.value.links) = 2
  /\ response.value.links[1].createdAt > response.value.links[2].createdAt

\* A link with this id was stored once and none is now.
Gone(id) == id < links_id_seq /\ \A l \in links : l.id # id

\* C32 as stated: after the owner deleted link 1, which held SlugAbc, the slug
\* comes to be held again, and so to resolve, only by a createLink that
\* claims it.
C32_OnlyCreateReclaims ==
  [][(~HoldsSlug(links, SlugAbc) /\ HoldsSlug(links', SlugAbc))
       => \E r \in Slots : createLink_persist(r, FALSE) /\ req[r].data.slug = SlugAbc]_vars

\* C32: after the owner's deleteLink returned success for a link, no link
\* with its id exists again, whatever runs beside or after it; while no link
\* holds its former slug the slug resolves to 404 and a createLink with it
\* passes the uniqueness check and is stored; the slug comes to be held
\* again only by a createLink or an updateLink that claims it.
C32_DeletionPermanent ==
  /\ [](\A l \in links : l.id # 1)
  /\ [][/\ \A id \in LinkIds : Gone(id) => Gone(id)'
        /\ \A r \in Slots :
             /\ deleteLink_persist(r, FALSE)
                  => /\ \A id \in LinkIds : id = req[r].linkId => Gone(id)'
                     /\ \A l \in links : l.id = req[r].linkId => ~HoldsSlug(links', l.slug)
             /\ (GET(r, SlugAbc, FALSE) /\ ~HoldsSlug(links, SlugAbc))
                  => response'.value = Json(MsgNotFound, 404)
             /\ (/\ createLink_precheck(r, FALSE)
                 /\ ~HoldsSlug(links, req[r].data.slug))
                  => /\ response' = NoResponse
                     /\ pc'[r] = "persist"
             /\ (/\ createLink_persist(r, FALSE)
                 /\ ~HoldsSlug(links, req[r].data.slug))
                  => /\ response'.value.success
                     /\ response'.value.data \in links'
                     /\ response'.value.data.slug = req[r].data.slug
                     /\ response'.value.data.id # 1
        /\ (~HoldsSlug(links, SlugAbc) /\ HoldsSlug(links', SlugAbc))
             => \E r \in Slots :
                  /\ createLink_persist(r, FALSE) \/ updateLink_persist(r, FALSE)
                  /\ req[r].data.slug = SlugAbc]_vars

\* After user_A's deletion of link 1, the step just taken stored user_B's
\* createLink with the freed slug, as link 2.
C32_Witness ==
  /\ response # NoResponse /\ response.op = "createLink" /\ response.userId = "user_B"
  /\ ~response.threw /\ response.value.success
  /\ response.value.data.slug = SlugAbc
  /\ response.value.data \in links
  /\ Gone(1)

\* C33: a createLink of a signed-in user that passes the rate limiter is
\* counted in the user's window whatever it returns: one that fails validation
\* raises the count (or opens a window with count 1) and stores nothing, the
\* steps that return SlugTaken or a persist failure give nothing back; with 10
\* counted in the window the next createLink is refused with the RateLimited
\* message, whether or not a link was ever created.
C33_FailuresCount ==
  [][/\ \A u \in Users :
          LET k == KeyOf("createLink", u)
          IN  /\ (/\ Issues("createLink", u) /\ response' # NoResponse
                  /\ k \in DOMAIN store /\ now <= store[k].resetTime
                  /\ store[k].count < CREATE_MAX)
                   => /\ store'[k] = [store[k] EXCEPT !.count = @ + 1]
                      /\ response'.value \in {Failure(m) : m \in InvalidInputMsgs \cup UnsafeUrlMsgs}
                      /\ links' = links
              /\ (/\ Issues("createLink", u) /\ response' # NoResponse
                  /\ (k \notin DOMAIN store \/ now > store[k].resetTime))
                   => /\ store'[k] = [count |-> 1, resetTime |-> now + WINDOW_MS]
                      /\ links' = links
              /\ (/\ Issues("createLink", u)
                  /\ k \in DOMAIN store /\ now <= store[k].resetTime
                  /\ store[k].count >= CREATE_MAX)
                   => /\ response' # NoResponse
                      /\ response'.value = Failure(MsgRateLimited)
                      /\ links' = links
     /\ \A r \in Slots :
          (req[r].op = "createLink" /\ pc[r] \in {"precheck", "persist"} /\ pc'[r] # pc[r])
            => store' = store]_vars

\* No link was ever inserted, user_A's window holds 10 createLinks, the last
\* of them made after the burst and failed, and the step just taken refused
\* user_A's next createLink.
C33_Witness ==
  /\ links = {} /\ links_id_seq = 1
  /\ calls = 2 /\ \A r \in Slots : pc[r] = "idle"
  /\ KeyOf("updateLink", "user_A") \notin DOMAIN store
  /\ KeyOf("createLink", "user_A") \in DOMAIN store
  /\ store[KeyOf("createLink", "user_A")].count = CREATE_MAX
  /\ response # NoResponse /\ response.op = "createLink" /\ response.userId = "user_A"
  /\ response.value = Failure(MsgRateLimited)

\* C34: an identifier checked with one max >= 1 has, whenever the Map holds
\* a record for it, 1 <= count <= max, and count is the number of calls
\* allowed since the record's window started; so no window holds more than
\* max allowed calls.
C34_CountWithinMax ==
  \A lim \in Limiters :
    lim.identifier \in DOMAIN store
      => LET rec == store[lim.identifier]
         IN  /\ 1 <= rec.count /\ rec.count <= lim.max
             /\ rec.count = Cardinality({i \in 1..Len(trace) :
                                           /\ trace[i].identifier = lim.identifier
                                           /\ trace[i].allowed
                                           /\ trace[i].now >= rec.resetTime - lim.windowMs})

\* A window of the identifier with max 2 holds its two allowed calls and a
\* refused one.
C34_Witness ==
  \E lim \in Limiters :
    /\ lim.max = 2 /\ lim.identifier \in DOMAIN store
    /\ store[lim.identifier].count = 2
    /\ \E i \in 1..Len(trace) :
         /\ trace[i].identifier = lim.identifier /\ ~trace[i].allowed
         /\ trace[i].now >= store[lim.identifier].resetTime - lim.windowMs

\* C35: a call of checkRateLimit made when the Map holds no record for the
\* identifier, or a record whose resetTime the clock has passed, is allowed
\* and leaves a window with count 1, with or without the sweep and whatever
\* was refused before; a call is refused only inside a window, and no window
\* ends later than windowMs from now.
C35_ThrottleEnds ==
  /\ [](\A lim \in Limiters :
          lim.identifier \in DOMAIN store
            => store[lim.identifier].resetTime <= now + lim.windowMs)
  /\ [][Len(trace') = Len(trace) + 1
          => LET e == trace'[Len(trace')]
                 k == e.identifier
             IN  /\ (k \notin DOMAIN store \/ now > store[k].resetTime)
                      => /\ e.allowed
                         /\ store'[k] = [count |-> 1, resetTime |-> now + e.windowMs]
                 /\ ~e.allowed => (k \in DOMAIN store /\ now <= store[k].resetTime)]_vars

\* The call just made was allowed with the sweep run, after two refused calls
\* on the same identifier.
C35_Witness ==
  /\ Len(trace) >= 3
  /\ LET e == trace[Len(trace)]
     IN  /\ e.allowed /\ e.sweep /\ e.now = now
         /\ store[e.identifier].count = 1
         /\ Cardinality({i \in 1..Len(trace) :
                           trace[i].identifier = e.identifier /\ ~trace[i].allowed}) >= 2

\* C36: getRemainingRequests(identifier, max) leaves the Map as it is and
\* returns max when the Map holds no record for the identifier or the clock
\* has passed its resetTime, else max - count, or 0 when count exceeds max;
\* the answer is greater than 0 exactly when checkRateLimit, called at that
\* instant with the same identifier and max, would allow the call.
C36_RemainingAgrees ==
  [][\A lim \in Limiters, max \in Asked :
       Remaining(lim, max)
         => LET k == lim.identifier
                v == response'.value
            IN  /\ store' = store
                /\ (k \notin DOMAIN store \/ now > store[k].resetTime) => v = max
                /\ (k \in DOMAIN store /\ now <= store[k].resetTime)
                     => v = IF store[k].count <= max THEN max - store[k].count ELSE 0
                /\ \A sweep \in BOOLEAN :
                     v > 0 <=> checkRateLimit(store, k, max, lim.windowMs, now, sweep).allowed]_vars

\* getRemainingRequests was asked with a max below the count of a live
\* window and answered 0.
C36_Witness ==
  /\ response # NoResponse /\ response.op = "getRemainingRequests"
  /\ response.value = 0
  /\ response.identifier \in DOMAIN store
  /\ now <= store[response.identifier].resetTime
  /\ store[response.identifier].count > response.max

\* The last call recorded on identifier k is a resetRateLimit.
JustReset(k) ==
  \E i \in 1..Len(trace) :
    /\ trace[i].identifier = k /\ "reset" \in DOMAIN trace[i]
    /\ \A j \in (i + 1)..Len(trace) : trace[j].identifier # k

\* C37: resetRateLimit(identifier) deletes the identifier's record and
\* leaves every other record as it is; the next checkRateLimit on the
\* identifier is allowed and leaves a window with count 1 that ends windowMs
\* from that call.
C37_ResetRemovesOne ==
  [][/\ \A lim \in Limiters :
          Reset(lim)
            => /\ lim.identifier \notin DOMAIN store'
               /\ DOMAIN store' = DOMAIN store \ {lim.identifier}
               /\ \A k \in DOMAIN store' : store'[k] = store[k]
     /\ (Len(trace') = Len(trace) + 1 /\ "allowed" \in DOMAIN trace'[Len(trace')])
          => LET e == trace'[Len(trace')]
             IN  JustReset(e.identifier)
                   => /\ e.allowed
                      /\ store'[e.identifier] = [count |-> 1, resetTime |-> now + e.windowMs]]_vars

\* A call was refused, the identifier was reset and the next call on it, at
\* the same time, was allowed; the other identifier's record is still there.
C37_Witness ==
  /\ Len(trace) >= 3
  /\ LET n == Len(trace)
     IN  /\ "allowed" \in DOMAIN trace[n] /\ "reset" \in DOMAIN trace[n - 1]
         /\ "allowed" \in DOMAIN trace[n - 2]
         /\ trace[n - 1].identifier = trace[n].identifier
         /\ trace[n - 2].identifier = trace[n].identifier
         /\ ~trace[n - 2].allowed /\ trace[n].allowed
         /\ trace[n - 2].now = trace[n].now
         /\ \E k \in DOMAIN store : k # trace[n].identifier

====
